---- MODULE Spec2Model ----
(***************************************************************************)
(* Model of the `digitalocean_droplets` data source                        *)
(* (digitalocean/datasource_digitalocean_droplets.go): the paginated       *)
(* ListByTag loop of dataSourceDigitalOceanDropletsRead and the flattening *)
(* and write-back of dropletsDecriptionAttributes.                         *)
(*                                                                         *)
(* Go strings that are only copied are TLA+ strings.  IP addresses, which  *)
(* the code lower-cases, are tuples of one-character strings, so that      *)
(* strings.ToLower is computed character by character; the empty Go string *)
(* is then the empty tuple.                                                *)
(***************************************************************************)
EXTENDS Integers, Sequences, FiniteSets, TLC

VARIABLES
    configured,   \* data source blocks the host framework invokes Read for
    script,       \* per invocation: the API's answers to its 1st, 2nd, ... ListByTag call
    pc,           \* per invocation: position in dataSourceDigitalOceanDropletsRead
    opts,         \* per invocation: godo.ListOptions {Page, PerPage}
    dropletList,  \* per invocation: the accumulator
    requests,     \* per invocation: the ListByTag calls issued so far
    ret,          \* per invocation: the value Read returned
    store,        \* per invocation: its schema.ResourceData (id, "droplets", number of Set calls)
    uniqueCount,  \* the counter behind resource.UniqueId()
    droplet,      \* input of one pass of the flattening loop body
    mapping       \* record produced by that pass

vars == <<configured, script, pc, opts, dropletList, requests, ret, store,
          uniqueCount, droplet, mapping>>

readVars == <<configured, script, pc, opts, dropletList, requests, ret, store,
              uniqueCount>>

flatVars == <<droplet, mapping>>

(***************************************************************************)
(* Bounds                                                                  *)
(***************************************************************************)
MaxPages == 3

MaxPerPage == 2

MaxCur == 2

MaxIfaces == 2

ConcMaxPages == 3

ConcPerPage == 1

(***************************************************************************)
(* Program constants                                                       *)
(***************************************************************************)
FirstPage == 1

PerPage == 200

Invocations == {1, 2}

Tag(i) == IF i = 1 THEN "web" ELSE "db"

(***************************************************************************)
(* Strings                                                                 *)
(***************************************************************************)
Digit == <<"0", "1", "2", "3", "4", "5", "6", "7", "8", "9">>

RECURSIVE Itoa(_)
Itoa(n) ==
    IF n < 0 THEN "-" \o Itoa(-n)
    ELSE IF n < 10 THEN Digit[n + 1]
    ELSE Itoa(n \div 10) \o Digit[(n % 10) + 1]

UpperToLower ==
    ("A" :> "a") @@ ("B" :> "b") @@ ("C" :> "c") @@ ("D" :> "d") @@
    ("E" :> "e") @@ ("F" :> "f") @@ ("G" :> "g") @@ ("H" :> "h") @@
    ("I" :> "i") @@ ("J" :> "j") @@ ("K" :> "k") @@ ("L" :> "l") @@
    ("M" :> "m") @@ ("N" :> "n") @@ ("O" :> "o") @@ ("P" :> "p") @@
    ("Q" :> "q") @@ ("R" :> "r") @@ ("S" :> "s") @@ ("T" :> "t") @@
    ("U" :> "u") @@ ("V" :> "v") @@ ("W" :> "w") @@ ("X" :> "x") @@
    ("Y" :> "y") @@ ("Z" :> "z")

ToLower(s) ==
    [j \in 1..Len(s) |->
        IF s[j] \in DOMAIN UpperToLower THEN UpperToLower[s[j]] ELSE s[j]]

EmptyString == <<>>

(***************************************************************************)
(* godo.Droplet                                                            *)
(***************************************************************************)
NullFeatures == [null |-> TRUE, list |-> <<>>]

FeatureList(l) == [null |-> FALSE, list |-> l]

Addr10_0_0_1 == <<"1", "0", ".", "0", ".", "0", ".", "1">>

Addr10_0_0_2 == <<"1", "0", ".", "0", ".", "0", ".", "2">>

AddrFE80 == <<"F", "E", "8", "0", ":", ":", "1">>

Addrfe80 == <<"f", "e", "8", "0", ":", ":", "1">>

AddrFD00 == <<"f", "d", "0", "0", ":", ":", "A">>

Addrfd00 == <<"f", "d", "0", "0", ":", ":", "a">>

Iface(t, a) == [Type |-> t, IPAddress |-> a]

MkDroplet(id, name, slug, imageId, v4, v6, features, volumes, tags) ==
    [ID |-> id, Name |-> name,
     Region |-> [Slug |-> "nyc3"],
     Size |-> [Slug |-> "s-1vcpu-1gb", PriceHourly |-> 744, PriceMonthly |-> 500],
     Disk |-> 25, Vcpus |-> 1, Memory |-> 1024,
     Status |-> "active", Locked |-> FALSE,
     Image |-> [Slug |-> slug, ID |-> imageId],
     Networks |-> [V4 |-> v4, V6 |-> v6],
     Features |-> features,
     VolumeIDs |-> volumes,
     Tags |-> tags]

\* The droplets the API holds under each tag, in the API's order.
CatalogSeq(t) ==
    IF t = "web"
    THEN << MkDroplet(101, "web-1", "ubuntu-20-04", 7,
                     <<Iface("public", Addr10_0_0_1)>>, <<Iface("public", AddrFE80)>>,
                     FeatureList(<<"ipv6", "monitoring">>), <<"vol-1", "vol-1">>, <<"web">>),
           MkDroplet(102, "web-2", "", 12345,
                     <<Iface("private", Addr10_0_0_2)>>, <<>>,
                     NullFeatures, <<>>, <<"web", "blue">>) >>
    ELSE << MkDroplet(201, "db-1", "", 0,
                     <<>>, <<>>, FeatureList(<<>>), <<"vol-9">>, <<"db">>),
           MkDroplet(202, "db-2", "debian-10", 7,
                     <<Iface("public", Addr10_0_0_2), Iface("private", Addr10_0_0_1)>>,
                     <<Iface("private", AddrFD00)>>,
                     FeatureList(<<"backups", "private_networking">>), <<>>, <<"db">>) >>

Catalog(t) == {CatalogSeq(t)[j] : j \in 1..Len(CatalogSeq(t))}

(***************************************************************************)
(* Helpers of the package that the flattening calls                        *)
(***************************************************************************)
\* Address of the first entry of the list whose type is addrType, else "".
FindAddrByType(ifaces, addrType) ==
    LET hits == {j \in 1..Len(ifaces) : ifaces[j].Type = addrType}
    IN  IF hits = {} THEN EmptyString
        ELSE ifaces[CHOOSE j \in hits : \A k \in hits : j <= k].IPAddress

findIPv4AddrByType(d, addrType) == FindAddrByType(d.Networks.V4, addrType)

findIPv6AddrByType(d, addrType) == FindAddrByType(d.Networks.V6, addrType)

containsDigitalOceanDropletFeature(features, name) ==
    \E j \in 1..Len(features) : features[j] = name

flattenDigitalOceanDropletVolumeIds(volumeids) ==
    {volumeids[j] : j \in 1..Len(volumeids)}

flattenTags(tags) == {tags[j] : j \in 1..Len(tags)}

URN(d) == "do:droplet:" \o Itoa(d.ID)

(***************************************************************************)
(* dropletsDecriptionAttributes: the body of the loop over the droplets    *)
(***************************************************************************)
ScalarAttributes(d) ==
    [name |-> d.Name, urn |-> URN(d), region |-> d.Region.Slug,
     size |-> d.Size.Slug, price_hourly |-> d.Size.PriceHourly,
     price_monthly |-> d.Size.PriceMonthly, disk |-> d.Disk,
     vcpus |-> d.Vcpus, memory |-> d.Memory, status |-> d.Status,
     locked |-> d.Locked]

ImageAttributeIdOnly(d) == [image |-> Itoa(d.Image.ID)]

ImageAttribute(d) ==
    IF d.Image.Slug = ""
    THEN [image |-> Itoa(d.Image.ID)]
    ELSE [image |-> d.Image.Slug]

\* mapping[key] = value only when the looked-up address is not "".
OptionalAddressAlways(key, addr, value) == key :> value

OptionalAddress(key, addr, value) ==
    IF addr # EmptyString THEN key :> value ELSE <<>>

AddressAttributes(d) ==
    LET publicIPv4  == findIPv4AddrByType(d, "public")
        privateIPv4 == findIPv4AddrByType(d, "private")
        publicIPv6  == findIPv6AddrByType(d, "public")
        privateIPv6 == findIPv6AddrByType(d, "private")
    IN  OptionalAddress("ipv4_address", publicIPv4, publicIPv4)
        @@ OptionalAddress("ipv4_address_private", privateIPv4, privateIPv4)
        @@ OptionalAddress("ipv6_address", publicIPv6, ToLower(publicIPv6))
        @@ OptionalAddress("ipv6_address_private", privateIPv6, ToLower(privateIPv6))

FeaturesPresentNonEmpty(features) == ~features.null /\ Len(features.list) > 0

FeaturesPresent(features) == ~features.null

FeatureAttributes(d) ==
    IF FeaturesPresent(d.Features)
    THEN [backups |-> containsDigitalOceanDropletFeature(d.Features.list, "backups"),
          ipv6 |-> containsDigitalOceanDropletFeature(d.Features.list, "ipv6"),
          private_networking |->
              containsDigitalOceanDropletFeature(d.Features.list, "private_networking"),
          monitoring |-> containsDigitalOceanDropletFeature(d.Features.list, "monitoring")]
    ELSE <<>>

CollectionAttributes(d) ==
    [volume_ids |-> flattenDigitalOceanDropletVolumeIds(d.VolumeIDs),
     tags |-> flattenTags(d.Tags)]

DropletAttributes(d) ==
    ScalarAttributes(d) @@ ImageAttribute(d) @@ AddressAttributes(d)
    @@ FeatureAttributes(d) @@ CollectionAttributes(d)

FlattenDroplets(droplets) ==
    [j \in 1..Len(droplets) |-> DropletAttributes(droplets[j])]

(***************************************************************************)
(* The API: godo's answer to a ListByTag call                              *)
(***************************************************************************)
\* resp.Links.CurrentPage(): a page number, or an error when the link cannot be parsed.
PageOk(p) == [ok |-> TRUE, page |-> p]

PageParseError == [ok |-> FALSE, page |-> 0]

\* resp.Links == nil
NoLinks == [present |-> FALSE, isLast |-> FALSE, cur |-> PageOk(0)]

Links(last, cur) == [present |-> TRUE, isLast |-> last, cur |-> cur]

ListError == [err |-> TRUE, droplets |-> <<>>, links |-> NoLinks]

Page(droplets, links) == [err |-> FALSE, droplets |-> droplets, links |-> links]

SeqsUpTo(S, n) == UNION {[1..k -> S] : k \in 0..n}

CurSet == {PageOk(p) : p \in 1..MaxCur} \cup {PageParseError}

\* No links, a last page (whose current-page link parses or not), or a page
\* that is not last with any current-page link.
LinksSet ==
    {NoLinks, Links(TRUE, PageOk(1)), Links(TRUE, PageParseError)}
    \cup {Links(FALSE, c) : c \in CurSet}

\* What one page can hold: up to n droplets of the tag, none of them twice.
PageContents(t, n) ==
    {l \in SeqsUpTo(Catalog(t), n) : \A j, k \in 1..Len(l) : l[j] = l[k] => j = k}

\* A response after which the loop goes on: links present, not last, page number parsed.
Continues(r) == ~r.err /\ r.links.present /\ ~r.links.isLast /\ r.links.cur.ok

Responses(t) ==
    {ListError} \cup
    {Page(l, k) : l \in PageContents(t, MaxPerPage), k \in LinksSet}

\* A well-behaved API, as two concurrent reads see it: page k holds the next
\* ConcPerPage droplets of the tag (going round its catalog) and reports k as
\* its current page; the last answer is a last page, a page without links, a
\* failed request or a page whose current-page link does not parse.
Endings == {"last", "nolinks", "listerr", "parseerr"}

ConcPageContents(t, k) ==
    [j \in 1..ConcPerPage |->
        CatalogSeq(t)[((k + j) % Len(CatalogSeq(t))) + 1]]

ConcScript(t, n, ending) ==
    [k \in 1..n |->
        IF k < n THEN Page(ConcPageContents(t, k), Links(FALSE, PageOk(k)))
        ELSE IF ending = "last" THEN Page(ConcPageContents(t, k), Links(TRUE, PageOk(1)))
        ELSE IF ending = "nolinks" THEN Page(ConcPageContents(t, k), NoLinks)
        ELSE IF ending = "listerr" THEN ListError
        ELSE Page(ConcPageContents(t, k), Links(FALSE, PageParseError))]

ConcScripts(t) == {ConcScript(t, n, e) : n \in 1..ConcMaxPages, e \in Endings}

\* Past the pages it has, the API answers with an empty page that has no links.
EmptyLastPage == Page(<<>>, NoLinks)

ResponseTo(i, k) == IF k <= Len(script[i]) THEN script[i][k] ELSE EmptyLastPage

(***************************************************************************)
(* schema.ResourceData and resource.UniqueId                               *)
(***************************************************************************)
NoId == ""

Unset == [set |-> FALSE, value |-> <<>>]

NewResourceData == [id |-> NoId, droplets |-> Unset, setCalls |-> 0]

UniqueId(n) == "terraform-" \o Itoa(n)

\* d.Set("droplets", s) fails when a record does not fit the schema; a list
\* without records has nothing to reject.
SetOutcomes(s) == IF Len(s) = 0 THEN {TRUE} ELSE BOOLEAN

(***************************************************************************)
(* dataSourceDigitalOceanDropletsRead                                      *)
(***************************************************************************)
NoReturn == "running"

ReturnNil == "nil"

ErrRetrieving == "Error retrieving droplets"

ErrSet == "set error"

InitialOpts == [Page |-> FirstPage, PerPage |-> PerPage]

AppendDropletsReversed(list, droplets) == droplets \o list

AppendDroplets(list, droplets) == list \o droplets

IsFinalResponseNoLinksOnly(links) == ~links.present

IsFinalResponse(links) == ~links.present \/ links.isLast

NextPageFromOpts(o, page) == o.Page + 1

NextPage(o, page) == page + 1

\* Lines 147-157: the host framework calls Read; options and accumulator are set up.
Invoke(i) ==
    /\ i \in configured
    /\ pc[i] = "idle"
    /\ opts' = [opts EXCEPT ![i] = InitialOpts]
    /\ dropletList' = [dropletList EXCEPT ![i] = <<>>]
    /\ pc' = [pc EXCEPT ![i] = "request"]
    /\ UNCHANGED <<configured, script, requests, ret, store, uniqueCount, flatVars>>

\* Line 160: ListByTag is called and blocks until the API answers.
Request(i) ==
    /\ pc[i] = "request"
    /\ requests' = [requests EXCEPT ![i] =
           Append(@, [tag |-> Tag(i), page |-> opts[i].Page, perPage |-> opts[i].PerPage])]
    /\ pc' = [pc EXCEPT ![i] = "waiting"]
    /\ UNCHANGED <<configured, script, opts, dropletList, ret, store, uniqueCount, flatVars>>

ReceiveShared(i) ==
    LET resp == ResponseTo(i, Len(requests[i]))
    IN  /\ pc[i] = "waiting"
        /\ IF resp.err
           THEN /\ pc' = [pc EXCEPT ![i] = "done"]
                /\ ret' = [ret EXCEPT ![i] = ErrRetrieving]
                /\ UNCHANGED <<opts, dropletList>>
           ELSE /\ dropletList' =
                       [j \in Invocations |-> AppendDroplets(dropletList[j], resp.droplets)]
                /\ IF IsFinalResponse(resp.links)
                   THEN /\ pc' = [pc EXCEPT ![i] = "flatten"]
                        /\ UNCHANGED <<opts, ret>>
                   ELSE IF ~resp.links.cur.ok
                   THEN /\ pc' = [pc EXCEPT ![i] = "done"]
                        /\ ret' = [ret EXCEPT ![i] = ErrRetrieving]
                        /\ UNCHANGED opts
                   ELSE /\ opts' = [opts EXCEPT ![i].Page = NextPage(opts[i], resp.links.cur.page)]
                        /\ pc' = [pc EXCEPT ![i] = "request"]
                        /\ UNCHANGED ret
        /\ UNCHANGED <<configured, script, requests, store, uniqueCount, flatVars>>

ReceiveIgnoringError(i) ==
    LET resp == ResponseTo(i, Len(requests[i]))
    IN  /\ pc[i] = "waiting"
        /\ dropletList' = [dropletList EXCEPT ![i] = AppendDroplets(@, resp.droplets)]
        /\ IF IsFinalResponse(resp.links)
           THEN /\ pc' = [pc EXCEPT ![i] = "flatten"]
                /\ UNCHANGED <<opts, ret>>
           ELSE /\ opts' = [opts EXCEPT ![i].Page = NextPage(opts[i], resp.links.cur.page)]
                /\ pc' = [pc EXCEPT ![i] = "request"]
                /\ UNCHANGED ret
        /\ UNCHANGED <<configured, script, requests, store, uniqueCount, flatVars>>

\* Lines 160-180: the rest of one pass of the loop, from the answer of ListByTag on.
Receive(i) ==
    LET resp == ResponseTo(i, Len(requests[i]))
    IN  /\ pc[i] = "waiting"
        /\ IF resp.err
           THEN /\ pc' = [pc EXCEPT ![i] = "done"]
                /\ ret' = [ret EXCEPT ![i] = ErrRetrieving]
                /\ UNCHANGED <<opts, dropletList>>
           ELSE /\ dropletList' = [dropletList EXCEPT ![i] = AppendDroplets(@, resp.droplets)]
                /\ IF IsFinalResponse(resp.links)
                   THEN /\ pc' = [pc EXCEPT ![i] = "flatten"]
                        /\ UNCHANGED <<opts, ret>>
                   ELSE IF ~resp.links.cur.ok
                   THEN /\ pc' = [pc EXCEPT ![i] = "done"]
                        /\ ret' = [ret EXCEPT ![i] = ErrRetrieving]
                        /\ UNCHANGED opts
                   ELSE /\ opts' = [opts EXCEPT ![i].Page = NextPage(opts[i], resp.links.cur.page)]
                        /\ pc' = [pc EXCEPT ![i] = "request"]
                        /\ UNCHANGED ret
        /\ UNCHANGED <<configured, script, requests, store, uniqueCount, flatVars>>

dropletsDecriptionAttributesErrorOnEmpty(i) ==
    LET s == FlattenDroplets(dropletList[i])
    IN  /\ pc[i] = "flatten"
        /\ uniqueCount' = uniqueCount + 1
        /\ \E ok \in SetOutcomes(s) :
              IF ok /\ Len(s) > 0
              THEN /\ store' = [store EXCEPT ![i] =
                          [id |-> UniqueId(uniqueCount), droplets |-> [set |-> TRUE, value |-> s],
                           setCalls |-> @.setCalls + 1]]
                   /\ ret' = [ret EXCEPT ![i] = ReturnNil]
              ELSE /\ store' = [store EXCEPT ![i].id = UniqueId(uniqueCount),
                                             ![i].setCalls = @ + 1]
                   /\ ret' = [ret EXCEPT ![i] = ErrSet]
        /\ pc' = [pc EXCEPT ![i] = "done"]
        /\ UNCHANGED <<configured, script, opts, dropletList, requests, flatVars>>

\* Lines 182-243: flatten the accumulator, SetId(resource.UniqueId()), then
\* Set("droplets", s) and return its error, if any.
dropletsDecriptionAttributes(i) ==
    LET s == FlattenDroplets(dropletList[i])
    IN  /\ pc[i] = "flatten"
        /\ uniqueCount' = uniqueCount + 1
        /\ \E ok \in SetOutcomes(s) :
              IF ok
              THEN /\ store' = [store EXCEPT ![i] =
                          [id |-> UniqueId(uniqueCount), droplets |-> [set |-> TRUE, value |-> s],
                           setCalls |-> @.setCalls + 1]]
                   /\ ret' = [ret EXCEPT ![i] = ReturnNil]
              ELSE /\ store' = [store EXCEPT ![i].id = UniqueId(uniqueCount),
                                             ![i].setCalls = @ + 1]
                   /\ ret' = [ret EXCEPT ![i] = ErrSet]
        /\ pc' = [pc EXCEPT ![i] = "done"]
        /\ UNCHANGED <<configured, script, opts, dropletList, requests, flatVars>>

\* Lines 187-235 for one droplet.
FlattenDroplet ==
    /\ Len(droplet) = 1
    /\ mapping = <<>>
    /\ mapping' = <<DropletAttributes(droplet[1])>>
    /\ UNCHANGED <<readVars, droplet>>

(***************************************************************************)
(* Specifications                                                          *)
(***************************************************************************)
InitRead ==
    /\ pc = [i \in Invocations |-> "idle"]
    /\ opts = [i \in Invocations |-> [Page |-> 0, PerPage |-> 0]]
    /\ dropletList = [i \in Invocations |-> <<>>]
    /\ requests = [i \in Invocations |-> <<>>]
    /\ ret = [i \in Invocations |-> NoReturn]
    /\ store = [i \in Invocations |-> NewResourceData]
    /\ uniqueCount = 0

\* One data source block; the API answers in any way within the bounds, with
\* at most MaxPages answers of which the last, and only the last, ends the loop.
Init ==
    /\ configured = {1}
    /\ \E n \in 1..MaxPages :
           \E pre \in [1..(n - 1) -> {r \in Responses(Tag(1)) : Continues(r)}] :
               \E last \in {r \in Responses(Tag(1)) : ~Continues(r)} :
                   script = [i \in Invocations |-> IF i = 1 THEN Append(pre, last) ELSE <<>>]
    /\ InitRead
    /\ droplet = <<>>
    /\ mapping = <<>>

\* Two data source blocks with different tags, read concurrently.
InitConc ==
    /\ configured = Invocations
    /\ script \in {[i \in Invocations |-> IF i = 1 THEN p[1] ELSE p[2]] :
                       p \in ConcScripts(Tag(1)) \X ConcScripts(Tag(2))}
    /\ InitRead
    /\ droplet = <<>>
    /\ mapping = <<>>

Next ==
    \E i \in Invocations :
        \/ Invoke(i)
        \/ Request(i)
        \/ Receive(i)
        \/ dropletsDecriptionAttributes(i)

Spec == Init /\ [][Next]_vars

SpecConc == InitConc /\ [][Next]_vars

\* The droplets the flattening is applied to.
ImageSlugs == {"", "ubuntu-20-04"}

ImageIDs == {0, 12345}

V4Ifaces == {Iface(t, a) : t \in {"public", "private"}, a \in {EmptyString, Addr10_0_0_1}}

V6Ifaces == {Iface(t, a) : t \in {"public", "private"}, a \in {EmptyString, AddrFE80}}

FeatureNames == <<"backups", "ipv6", "private_networking", "monitoring", "virtio">>

RECURSIVE SubSeqOf(_, _)
SubSeqOf(names, S) ==
    IF names = <<>> THEN <<>>
    ELSE IF Head(names) \in S THEN <<Head(names)>> \o SubSeqOf(Tail(names), S)
    ELSE SubSeqOf(Tail(names), S)

FeatureLists ==
    {NullFeatures} \cup
    {FeatureList(SubSeqOf(FeatureNames, S)) :
        S \in SUBSET {FeatureNames[j] : j \in 1..Len(FeatureNames)}}

FlattenInput(slug, imageId, v4, v6, f) ==
    MkDroplet(101, "web-1", slug, imageId, v4, v6, f, <<"vol-1">>, <<"web">>)

InitFlatten ==
    /\ configured = {}
    /\ script = [i \in Invocations |-> <<>>]
    /\ InitRead
    /\ \E slug \in ImageSlugs, imageId \in ImageIDs, f \in FeatureLists :
           \E v4 \in SeqsUpTo(V4Ifaces, MaxIfaces), v6 \in SeqsUpTo(V6Ifaces, MaxIfaces) :
               droplet = <<FlattenInput(slug, imageId, v4, v6, f)>>
    /\ mapping = <<>>

NextFlatten == FlattenDroplet

SpecFlatten == InitFlatten /\ [][NextFlatten]_vars

(***************************************************************************)
(* Properties                                                              *)
(***************************************************************************)
\* What the API's answers say, read off the script alone.
EndsLoop(r) == ~r.err /\ (~r.links.present \/ r.links.isLast)

Fails(r) == r.err \/ (r.links.present /\ ~r.links.isLast /\ ~r.links.cur.ok)

\* Page N is the first that reports itself as last or carries no links, and
\* no earlier page fails.
FirstLastPage(s, N) ==
    /\ N \in 1..Len(s)
    /\ EndsLoop(s[N])
    /\ \A k \in 1..(N - 1) : ~EndsLoop(s[k]) /\ ~Fails(s[k])

RECURSIVE SumCounts(_, _)
SumCounts(s, n) == IF n = 0 THEN 0 ELSE SumCounts(s, n - 1) + Len(s[n].droplets)

\* The instances of pages 1..n in the order the API returned them.
RECURSIVE ApiOrder(_, _)
ApiOrder(s, n) == IF n = 0 THEN <<>> ELSE ApiOrder(s, n - 1) \o s[n].droplets

\* Number of answers the invocation has taken from ListByTag.
Processed(i) == IF pc[i] = "waiting" THEN Len(requests[i]) - 1 ELSE Len(requests[i])

\* C1: when page N of the API's answers is the first to report itself as last
\* (or to carry no links), the invocation never issues more than N ListByTag
\* requests, has issued exactly N when the loop is left, and hands the
\* flattening an accumulator as long as the sum of the N page sizes.
PaginationTermination ==
    \A i \in configured : \A N \in 1..Len(script[i]) :
        FirstLastPage(script[i], N) =>
            /\ Len(requests[i]) <= N
            /\ pc[i] \in {"flatten", "done"} =>
                   /\ Len(requests[i]) = N
                   /\ ret[i] # ErrRetrieving
            /\ pc[i] = "flatten" => Len(dropletList[i]) = SumCounts(script[i], N)

PaginationTerminationWitness ==
    /\ pc[1] = "flatten"
    /\ FirstLastPage(script[1], 3)
    /\ Len(requests[1]) = 3
    /\ Len(dropletList[1]) = 5

\* C2: once an answer taken from ListByTag is a failed request, or a page
\* that is not last and whose current-page number does not parse, the
\* invocation has returned the retrieval error, that request is its last one,
\* and Set was never called on its store, which holds no `droplets`.
ErrorShortCircuit ==
    \A i \in configured : \A k \in 1..Processed(i) :
        Fails(ResponseTo(i, k)) =>
            /\ pc[i] = "done"
            /\ ret[i] = ErrRetrieving
            /\ Len(requests[i]) = k
            /\ store[i].setCalls = 0
            /\ store[i].droplets = Unset

ErrorShortCircuitWitness ==
    /\ ret[1] = ErrRetrieving
    /\ Len(requests[1]) = 2
    /\ script[1][2].err
    /\ Len(dropletList[1]) > 0
    /\ store[1].setCalls = 0

\* C3: an invocation that returned an error, whatever stage failed, left the
\* store's identifier and its `droplets` value as they were before it; only
\* an invocation that succeeds assigns the identifier.
NoPartialSuccess ==
    \A i \in configured :
        /\ (pc[i] = "done" /\ ret[i] # ReturnNil) =>
               store[i].id = NoId /\ store[i].droplets = Unset
        /\ store[i].id # NoId => ret[i] = ReturnNil

\* C4: when the API answers with one page that has no instances and no next
\* page, the invocation returns no error and stores the empty list under
\* `droplets`.
ZeroMatches(s) ==
    Len(s) = 1 /\ ~s[1].err /\ s[1].droplets = <<>> /\ EndsLoop(s[1])

ApiResponseOrder ==
    \A i \in configured :
        (pc[i] = "done" /\ ret[i] = ReturnNil) =>
            LET api == ApiOrder(script[i], Len(script[i]))
                out == store[i].droplets.value
            IN  /\ store[i].droplets.set
                /\ Len(out) = Len(api)
                /\ \A j \in 1..Len(api) :
                       /\ out[j].name = api[j].Name
                       /\ out[j] = DropletAttributes(api[j])

ApiResponseOrderWitness ==
    /\ pc[1] = "done"
    /\ ret[1] = ReturnNil
    /\ Len(script[1]) = 3
    /\ Len(store[1].droplets.value) = 4
    /\ store[1].droplets.value[1].name = "web-2"
    /\ store[1].droplets.value[2].name = "web-1"
    /\ store[1].droplets.value[3].name = "web-1"
    /\ store[1].droplets.value[4].name = "web-2"

\* Decimal strings of the image ids in use, written out.
DecimalString == (0 :> "0") @@ (7 :> "7") @@ (12345 :> "12345")

\* C6: the record's `image` is the decimal string of the numeric image id
\* when the image slug is empty, and the slug itself otherwise.
ImageField ==
    mapping # <<>> =>
        mapping[1].image =
            IF droplet[1].Image.Slug = ""
            THEN DecimalString[droplet[1].Image.ID]
            ELSE droplet[1].Image.Slug

ImageFieldWitness ==
    /\ mapping # <<>>
    /\ droplet[1].Image.Slug = ""
    /\ droplet[1].Image.ID = 12345
    /\ mapping[1].image = "12345"

\* The four address fields: key, interface list, scope, and whether the
\* address is lower-cased.
AddressFields(d) ==
    { <<"ipv4_address", d.Networks.V4, "public", FALSE>>,
      <<"ipv4_address_private", d.Networks.V4, "private", FALSE>>,
      <<"ipv6_address", d.Networks.V6, "public", TRUE>>,
      <<"ipv6_address_private", d.Networks.V6, "private", TRUE>> }

Matches(ifaces, scope) == {j \in 1..Len(ifaces) : ifaces[j].Type = scope}

\* C7 as stated: each address key is in the record exactly when the
\* interface list has an entry of the field's family and scope.
AddressKeyIffMatch ==
    mapping # <<>> =>
        \A f \in AddressFields(droplet[1]) :
            (f[1] \in DOMAIN mapping[1]) <=> (Matches(f[2], f[3]) # {})

\* C7, amended: each address key is in the record exactly when the lookup
\* for the field's family and scope (the first matching entry) gives a
\* non-empty address; so the key is absent when no entry matches, and a key
\* that is present is never the empty string.
AddressKeyIffNonEmptyLookup ==
    mapping # <<>> =>
        \A f \in AddressFields(droplet[1]) :
            LET hits == Matches(f[2], f[3])
                first == CHOOSE j \in hits : \A k \in hits : j <= k
            IN  /\ (f[1] \in DOMAIN mapping[1]) <=>
                       (hits # {} /\ f[2][first].IPAddress # EmptyString)
                /\ hits = {} => f[1] \notin DOMAIN mapping[1]
                /\ f[1] \in DOMAIN mapping[1] => mapping[1][f[1]] # EmptyString

AddressKeyWitness ==
    /\ mapping # <<>>
    /\ Matches(droplet[1].Networks.V4, "public") # {}
    /\ "ipv4_address" \notin DOMAIN mapping[1]
    /\ "ipv4_address_private" \in DOMAIN mapping[1]
    /\ Matches(droplet[1].Networks.V6, "public") = {}
    /\ "ipv6_address" \notin DOMAIN mapping[1]

FeatureKeys == {"backups", "ipv6", "private_networking", "monitoring"}

\* C8: with a null feature list none of the four feature keys is in the
\* record; with a non-null list, empty or not, all four are, and each tells
\* whether its own name is in the list.
FeatureFlags ==
    mapping # <<>> =>
        LET f == droplet[1].Features
            listed == {f.list[j] : j \in 1..Len(f.list)}
        IN  IF f.null
            THEN FeatureKeys \cap DOMAIN mapping[1] = {}
            ELSE /\ FeatureKeys \subseteq DOMAIN mapping[1]
                 /\ \A key \in FeatureKeys : mapping[1][key] = (key \in listed)

FeatureFlagsWitness ==
    /\ mapping # <<>>
    /\ ~droplet[1].Features.null
    /\ droplet[1].Features.list = <<>>
    /\ FeatureKeys \subseteq DOMAIN mapping[1]
    /\ mapping[1]["monitoring"] = FALSE

\* C9: every ListByTag request carries the invocation's tag and page size
\* 200; the first asks for page 1; each later one follows an answer that was
\* not last and asks for that answer's current page + 1; while a request is
\* outstanding the accumulator already holds all earlier answers; nothing is
\* requested after an answer that is last or has no links.
SequentialRequests ==
    \A i \in configured :
        /\ \A k \in 1..Len(requests[i]) :
               /\ requests[i][k].tag = Tag(i)
               /\ requests[i][k].perPage = 200
               /\ k = 1 => requests[i][k].page = 1
               /\ k > 1 =>
                      LET prev == ResponseTo(i, k - 1)
                      IN  /\ ~prev.err
                          /\ prev.links.present
                          /\ ~prev.links.isLast
                          /\ prev.links.cur.ok
                          /\ requests[i][k].page = prev.links.cur.page + 1
        /\ pc[i] \in {"request", "waiting"} =>
               dropletList[i] = ApiOrder(script[i], Processed(i))
        /\ \A k \in 1..Processed(i) :
               EndsLoop(ResponseTo(i, k)) => Len(requests[i]) = k

SequentialRequestsWitness ==
    /\ pc[1] = "waiting"
    /\ Len(requests[1]) = 3
    /\ requests[1][2].page = 3
    /\ requests[1][3].page = 2
    /\ Len(dropletList[1]) = 4

\* What the invocation returns when it runs alone on its own answers.
AloneReturns(s) ==
    IF EndsLoop(s[Len(s)])
    THEN {ReturnNil} \cup (IF ApiOrder(s, Len(s)) = <<>> THEN {} ELSE {ErrSet})
    ELSE {ErrRetrieving}

\* C10: with two invocations interleaved, each one's accumulator holds
\* exactly the instances of the answers to its own requests, its page counter
\* follows its own answers, and what it returns and stores is what it returns
\* and stores when run alone.
ConcurrentIsolation ==
    \A i \in configured :
        /\ pc[i] # "idle" =>
               /\ dropletList[i] = ApiOrder(script[i], Processed(i))
               /\ \A j \in 1..Len(dropletList[i]) : dropletList[i][j] \in Catalog(Tag(i))
        /\ pc[i] \in {"request", "waiting"} =>
               opts[i].Page = IF Processed(i) = 0 THEN 1
                              ELSE script[i][Processed(i)].links.cur.page + 1
        /\ pc[i] = "done" =>
               /\ ret[i] \in AloneReturns(script[i])
               /\ ret[i] = ReturnNil =>
                      store[i].droplets =
                          [set |-> TRUE,
                           value |-> FlattenDroplets(ApiOrder(script[i], Len(script[i])))]
               /\ ret[i] # ReturnNil => store[i].droplets = Unset

ConcurrentIsolationWitness ==
    /\ pc[1] = "waiting"
    /\ pc[2] = "waiting"
    /\ Len(requests[1]) = 2
    /\ Len(requests[2]) = 2
    /\ Len(dropletList[1]) = 1
    /\ Len(dropletList[2]) = 1

====
